---- MODULE Spec2Model ----
(***************************************************************************)
(* Model of src/jg/eggtray/issue.py: the issue bot that reads a trigger    *)
(* "check @username" from a GitHub issue, posts a "working" comment, runs  *)
(* the external profile check, edits the comment with the summary and      *)
(* closes the issue.                                                       *)
(*                                                                         *)
(* Text is modelled as a sequence of one-character strings where the code  *)
(* looks at characters (the issue body, the username), and as a sequence   *)
(* of text pieces where the code only concatenates (titles, comment        *)
(* bodies, URLs).                                                          *)
(***************************************************************************)
EXTENDS Integers, Sequences, FiniteSets, TLC

\* ---------------------------------------------------------------- bounds
\* Total number of process_issue invocations in one behaviour.
MaxRuns == 2
\* Longest outcome list of a Summary drawn for the formatter.
MaxOutcomes == 2

\* The two workflow runs that may execute process_issue at the same time.
Procs == {"p1", "p2"}

\* Python's None for the optional texts (body, username, run_url, error).
\* No character and no text piece equals "None".
None == <<"None">>

\* Python truthiness of an optional text: None and "" are falsy.
Truthy(x) == x # None /\ x # <<>>

\* ------------------------------------------------------------- characters
UpperChars == {"C", "B", "H", "E", "K"}
LowerChars == {"a", "b", "c", "e", "g", "h", "i", "k", "l", "n", "o", "x"}
DigitChars == {"1"}
\* \w : letters, digits and the underscore
WordChars == UpperChars \cup LowerChars \cup DigitChars \cup {"_"}
\* \s and str.strip() : whitespace
SpaceChars == {" ", "\t", "\n"}

IsWord(c) == c \in WordChars
IsSpace(c) == c \in SpaceChars

\* re.I : letters compare by their lower-case form
Lower(c) ==
    CASE c = "C" -> "c"
      [] c = "B" -> "b"
      [] c = "H" -> "h"
      [] c = "E" -> "e"
      [] c = "K" -> "k"
      [] OTHER -> c

\* The literal of TRIGGER_RE
TriggerWord == <<"c", "h", "e", "c", "k">>

\* Length of the longest run of characters of class cls in s starting at
\* index k (1-based), the extent of a greedy \s+ or \w+.
RECURSIVE RunLen(_, _, _)
RunLen(s, k, cls) ==
    IF k > Len(s) \/ s[k] \notin cls THEN 0 ELSE 1 + RunLen(s, k + 1, cls)

\* TRIGGER_RE = \bcheck\s+@(\w+) with re.I, tried at index i (1-based) of s:
\* the captured group, or None when the pattern does not match there.
MatchAt(s, i) ==
    LET n  == Len(TriggerWord)
        sp == RunLen(s, i + n, SpaceChars)
        at == i + n + sp
        w  == RunLen(s, at + 1, WordChars)
    IN  IF /\ i + n - 1 <= Len(s)
           /\ (i = 1 \/ ~IsWord(s[i - 1]))
           /\ \A j \in 1..n : Lower(s[i + j - 1]) = TriggerWord[j]
           /\ sp >= 1
           /\ at <= Len(s)
           /\ s[at] = "@"
           /\ w >= 1
        THEN SubSeq(s, at + 1, at + w)
        ELSE None

\* pattern.search(s, pos): the leftmost match that starts at Python index
\* >= pos; \b still looks at the character before pos.
Search(s, pos) ==
    LET hits == {i \in (pos + 1)..Len(s) : MatchAt(s, i) # None}
    IN  IF hits = {} THEN None
        ELSE MatchAt(s, CHOOSE i \in hits : \A k \in hits : i <= k)

\* re.I, the integer that line 73 passes as the second argument of
\* TRIGGER_RE.search, where a compiled pattern takes the start position.
SearchPos == 2

\* ------------------------------------------------------------------ issue
\* Mutant: the state of the issue is never looked at
IsClosed_Never(iss) == FALSE

IsClosed(iss) == iss.state = "closed"

\* Mutant: any label set passes
HasCheckLabel_Any(iss) == TRUE

HasCheckLabel(iss) == "check" \in iss.labels

\* not issue.body or not issue.body.strip()
IsBlank(body) ==
    body = None \/ \A i \in 1..Len(body) : IsSpace(body[i])

\* Mutant: fetch_username_from_issue without its check of issue.state
fetch_username_from_issue_NoStateCheck(iss) ==
    IF "check" \notin iss.labels THEN None
    ELSE IF IsBlank(iss.body) THEN None
    ELSE Search(iss.body, SearchPos)

\* What fetch_username_from_issue returns for the issue it fetched.
fetch_username_from_issue(iss) ==
    IF IsClosed(iss) THEN None
    ELSE IF ~HasCheckLabel(iss) THEN None
    ELSE IF IsBlank(iss.body) THEN None
    ELSE Search(iss.body, SearchPos)

\* f"Profile check: {username}"
TitleFor(username) == <<"Profile check: ">> \o username

\* f"https://github.com/{username}"
ProfileUrl(username) == <<"https://github.com/">> \o username

\* f"https://github.com/{owner}/{repo}/actions/runs/{run_id}", or None
\* when run_id is falsy (None or 0, both modelled as 0).
RunUrl(run_id) ==
    IF run_id # 0
    THEN <<"https://github.com/owner/repo/actions/runs/", ToString(run_id)>>
    ELSE None

\* Mutant: the title is sent without the comparison
TitleDiffers_Always(current, title) == TRUE

\* if issue.title != title
TitleDiffers(current, title) == current # title

\* issues.async_update(..., title=title)
WithTitle(iss, title) == [iss EXCEPT !.title = title]

\* Mutant: the closing request carries the wrong field
WithClosed_WrongField(iss) == [iss EXCEPT !.title = <<"closed">>]

\* issues.async_update(..., state="closed")
WithClosed(iss) == [iss EXCEPT !.state = "closed"]

\* ------------------------------------------------------- comment bodies
\* jg.hen.models.Status, the keys of COLORS
Status == {"error", "warning", "info", "done"}

\* COLORS: the glyph shown for a status (the emoji, by name)
COLORS(status) ==
    CASE status = "error"   -> "RED_CIRCLE"
      [] status = "warning" -> "ORANGE_CIRCLE"
      [] status = "info"    -> "BLUE_CIRCLE"
      [] status = "done"    -> "GREEN_CIRCLE"

Glyphs == {COLORS(s) : s \in Status}

\* The fixed pieces of the templates (line breaks and code fences left out)
WorkingText == "Ahoj! I see you have requested a profile review ... while you wait."
TrackOpen == "---[Track my progress here]("
LinkClose == ") EYES"
ErrorHeader == "I have took a look at the profile, but unfortunately it ended with an error"
ErrorClose == "(end of the error block)"
Mention == "@honzajavorek, take a look at this, please."
DoneHeader == "I am done reviewing the profile!"
ExplainOpen == "[Explanation]("
ExplainClose == ")"
Rule == "---"
LogOpen == "[See the log here]("
DetailsOpen == "<details><summary>See the results as JSON</summary>"
DetailsClose == "</details>"

\* format_comment_body(run_url)
format_comment_body(run_url) ==
    <<WorkingText>> \o
    (IF Truthy(run_url) THEN <<TrackOpen>> \o run_url \o <<LinkClose>> ELSE <<>>)

\* One outcome in summary.model_dump_json()
JsonOutcome(o) ==
    <<"{status:", o.status, "message:", o.message, "docs_url:", o.docs_url, "}">>

RECURSIVE JsonOutcomes(_)
JsonOutcomes(outcomes) ==
    IF outcomes = <<>> THEN <<>>
    ELSE JsonOutcome(Head(outcomes)) \o JsonOutcomes(Tail(outcomes))

\* summary.model_dump_json(indent=2)
Json(summary) ==
    <<"{error:">> \o
    (IF summary.error = None THEN <<"null">> ELSE <<"quote">> \o summary.error \o <<"quote">>) \o
    <<"outcomes:[">> \o JsonOutcomes(summary.outcomes) \o <<"]}">>

\* The text one iteration of the loop of format_summary_body appends
OutcomeBlock(o) ==
    <<COLORS(o.status), " ", o.message, ExplainOpen, o.docs_url, ExplainClose>>

\* Mutant: the loop prepends each block instead of appending it
RECURSIVE OutcomeBlocks_Prepended(_)
OutcomeBlocks_Prepended(outcomes) ==
    IF outcomes = <<>> THEN <<>>
    ELSE OutcomeBlocks_Prepended(Tail(outcomes)) \o OutcomeBlock(Head(outcomes))

\* for outcome in summary.outcomes: text += ...
RECURSIVE OutcomeBlocks(_)
OutcomeBlocks(outcomes) ==
    IF outcomes = <<>> THEN <<>>
    ELSE OutcomeBlock(Head(outcomes)) \o OutcomeBlocks(Tail(outcomes))

\* Mutant: format_summary_body without its error branch
format_summary_body_NoErrorBranch(summary, run_url) ==
    <<DoneHeader>> \o OutcomeBlocks(summary.outcomes) \o
    <<Rule>> \o
    (IF Truthy(run_url) THEN <<LogOpen>> \o run_url \o <<LinkClose>> ELSE <<>>) \o
    <<DetailsOpen>> \o Json(summary) \o <<DetailsClose>>

\* format_summary_body(summary, run_url)
format_summary_body(summary, run_url) ==
    (IF Truthy(summary.error)
     THEN <<ErrorHeader>> \o summary.error \o <<ErrorClose, Mention>>
     ELSE <<DoneHeader>> \o OutcomeBlocks(summary.outcomes)) \o
    <<Rule>> \o
    (IF Truthy(run_url) THEN <<LogOpen>> \o run_url \o <<LinkClose>> ELSE <<>>) \o
    <<DetailsOpen>> \o Json(summary) \o <<DetailsClose>>

\* post_summary calls format_summary_body(summary): run_url keeps its default
SummaryBodyPosted(summary) == format_summary_body(summary, None)

\* ----------------------------------------------------------------- inputs
\* Issue bodies: no body, "", " \n", "check @al", "  check @al",
\* "checking @x", "check al", "check @al check @bo" and "x Check\t@Bob1"
Bodies ==
    { None,
      <<>>,
      <<" ", "\n">>,
      <<"c", "h", "e", "c", "k", " ", "@", "a", "l">>,
      <<" ", " ", "c", "h", "e", "c", "k", " ", "@", "a", "l">>,
      <<"c", "h", "e", "c", "k", "i", "n", "g", " ", "@", "x">>,
      <<"c", "h", "e", "c", "k", " ", "a", "l">>,
      <<"c", "h", "e", "c", "k", " ", "@", "a", "l", " ",
        "c", "h", "e", "c", "k", " ", "@", "b", "o">>,
      <<"x", " ", "C", "h", "e", "c", "k", "\t", "@", "B", "o", "b", "1">> }

LabelSets == {{}, {"bug"}, {"bug", "check"}}

Titles == {<<"Please review me">>, TitleFor(<<"a", "l">>)}

Issues ==
    [state : {"open", "closed"}, labels : LabelSets, body : Bodies, title : Titles]

\* A comment somebody wrote on the issue before the bot ran; creator and
\* editor record which invocation created and last edited a comment (0: none)
UserComment == [body |-> <<"Thanks!">>, creator |-> 0, editor |-> 0]

Outcome(status) ==
    [status |-> status, message |-> "msg-" \o status, docs_url |-> "docs-" \o status]

\* What check_profile_url may return in a run
Summaries ==
    { [error |-> None, outcomes |-> <<Outcome("error"), Outcome("done")>>],
      [error |-> <<"boom">>, outcomes |-> <<Outcome("warning")>>],
      [error |-> <<>>, outcomes |-> <<Outcome("info")>>] }

\* run_id of an invocation: 0 stands for a missing run id
RunIds == {0, 7}

NoIssue == [state |-> "none", labels |-> {}, body |-> None, title |-> None]
NoSummary == [error |-> None, outcomes |-> <<>>]

\* ------------------------------------------------------------------ state
VARIABLES
    issue,       \* the remote issue: state, labels, body, title
    comments,    \* the remote issue's comments; a comment's id is its index
    checkLog,    \* the calls of check_profile_url so far: url and invocation
    pc,          \* where each workflow run stands in process_issue
    run_url,     \* process_issue: run_url
    username,    \* process_issue: username
    fetched,     \* fetch_username_from_issue: issue
    title_seen,  \* update_title: issue.title
    comment_id,  \* process_issue: comment_id
    summary,     \* process_issue: summary
    ops,         \* the writes and external calls of the current invocation
    runNo,       \* the number of the current invocation of each run
    lateRun,     \* whether the current invocation began on a closed issue
    runs,        \* invocations so far
    issue0,      \* the issue as it was before the first invocation
    fmtIn,       \* formatter check: the Summary given to format_summary_body
    fmtUrl,      \* formatter check: the run_url given to format_summary_body
    fmtOut       \* formatter check: the text returned, <<>> before the call

remote == <<issue, comments, checkLog>>
locals == <<run_url, username, fetched, title_seen, comment_id, summary>>
fmt == <<fmtIn, fmtUrl, fmtOut>>
vars == <<issue, comments, checkLog, pc, run_url, username, fetched, title_seen,
          comment_id, summary, ops, runNo, lateRun, runs, issue0, fmtIn, fmtUrl, fmtOut>>

Init ==
    /\ issue \in Issues
    /\ issue0 = issue
    /\ comments = <<UserComment>>
    /\ checkLog = <<>>
    /\ pc = [p \in Procs |-> "idle"]
    /\ run_url = [p \in Procs |-> None]
    /\ username = [p \in Procs |-> None]
    /\ fetched = [p \in Procs |-> NoIssue]
    /\ title_seen = [p \in Procs |-> None]
    /\ comment_id = [p \in Procs |-> 0]
    /\ summary = [p \in Procs |-> NoSummary]
    /\ ops = [p \in Procs |-> <<>>]
    /\ runNo = [p \in Procs |-> 0]
    /\ lateRun = [p \in Procs |-> FALSE]
    /\ runs = 0
    /\ fmtIn = NoSummary
    /\ fmtUrl = None
    /\ fmtOut = <<>>

Terminated(p) == pc[p] \in {"idle", "done", "raised"}

\* process_issue is called: lines 27-36
Invoke(p) ==
    /\ Terminated(p)
    /\ runs < MaxRuns
    /\ \E run_id \in RunIds :
         run_url' = [run_url EXCEPT ![p] = RunUrl(run_id)]
    /\ runs' = runs + 1
    /\ runNo' = [runNo EXCEPT ![p] = runs + 1]
    /\ lateRun' = [lateRun EXCEPT ![p] = (issue.state = "closed")]
    /\ pc' = [pc EXCEPT ![p] = "fetch"]
    /\ username' = [username EXCEPT ![p] = None]
    /\ fetched' = [fetched EXCEPT ![p] = NoIssue]
    /\ title_seen' = [title_seen EXCEPT ![p] = None]
    /\ comment_id' = [comment_id EXCEPT ![p] = 0]
    /\ summary' = [summary EXCEPT ![p] = NoSummary]
    /\ ops' = [ops EXCEPT ![p] = <<>>]
    /\ UNCHANGED <<remote, issue0, fmt>>

\* username = await fetch_username_from_issue(...); if username: ... else: skip
FetchUsername(p) ==
    /\ pc[p] = "fetch"
    /\ fetched' = [fetched EXCEPT ![p] = issue]
    /\ username' = [username EXCEPT ![p] = fetch_username_from_issue(issue)]
    /\ pc' = [pc EXCEPT ![p] =
                IF Truthy(fetch_username_from_issue(issue)) THEN "update_title" ELSE "done"]
    /\ UNCHANGED <<remote, run_url, title_seen, comment_id, summary, ops, runNo,
                   lateRun, runs, issue0, fmt>>

\* update_title: the issue is fetched again and its title compared
UpdateTitleGet(p) ==
    /\ pc[p] = "update_title"
    /\ title_seen' = [title_seen EXCEPT ![p] = issue.title]
    /\ pc' = [pc EXCEPT ![p] =
                IF TitleDiffers(issue.title, TitleFor(username[p]))
                THEN "send_title" ELSE "post_comment"]
    /\ UNCHANGED <<remote, run_url, username, fetched, comment_id, summary, ops,
                   runNo, lateRun, runs, issue0, fmt>>

\* update_title: the update request with the new title
UpdateTitleSend(p) ==
    /\ pc[p] = "send_title"
    /\ issue' = WithTitle(issue, TitleFor(username[p]))
    /\ ops' = [ops EXCEPT ![p] = Append(@, "update_title")]
    /\ pc' = [pc EXCEPT ![p] = "post_comment"]
    /\ UNCHANGED <<comments, checkLog, locals, runNo, lateRun, runs, issue0, fmt>>

\* The comment the server stores for a create request of invocation r
NewComment(body, r) == [body |-> body, creator |-> r, editor |-> 0]

\* Mutant: the id of the comment before the one just created
NewCommentId_Stale(cs) == Len(cs)

\* response.parsed_data.id of the comment just created
NewCommentId(cs) == Len(cs) + 1

\* comment_id = await post_comment(...)
PostComment(p) ==
    /\ pc[p] = "post_comment"
    /\ comments' = Append(comments, NewComment(format_comment_body(run_url[p]), runNo[p]))
    /\ comment_id' = [comment_id EXCEPT ![p] = NewCommentId(comments)]
    /\ ops' = [ops EXCEPT ![p] = Append(@, "create_comment")]
    /\ pc' = [pc EXCEPT ![p] = "check"]
    /\ UNCHANGED <<issue, checkLog, run_url, username, fetched, title_seen, summary,
                   runNo, lateRun, runs, issue0, fmt>>

\* summary = await check_profile_url(profile_url, github=github) returns
CheckReturns(p) ==
    /\ pc[p] = "check"
    /\ \E s \in Summaries : summary' = [summary EXCEPT ![p] = s]
    /\ checkLog' = Append(checkLog, [url |-> ProfileUrl(username[p]), run |-> runNo[p]])
    /\ ops' = [ops EXCEPT ![p] = Append(@, "check_profile_url")]
    /\ pc' = [pc EXCEPT ![p] = "post_summary"]
    /\ UNCHANGED <<issue, comments, run_url, username, fetched, title_seen, comment_id,
                   runNo, lateRun, runs, issue0, fmt>>

\* await check_profile_url(...) raises: nothing catches it, process_issue ends
CheckRaises(p) ==
    /\ pc[p] = "check"
    /\ checkLog' = Append(checkLog, [url |-> ProfileUrl(username[p]), run |-> runNo[p]])
    /\ ops' = [ops EXCEPT ![p] = Append(@, "check_profile_url")]
    /\ pc' = [pc EXCEPT ![p] = "raised"]
    /\ UNCHANGED <<issue, comments, locals, runNo, lateRun, runs, issue0, fmt>>

\* The comment after an update request of invocation r with the new body
EditedComment(c, body, r) == [c EXCEPT !.body = body, !.editor = r]

\* await post_summary(github, owner, repo, comment_id, summary)
PostSummary(p) ==
    /\ pc[p] = "post_summary"
    /\ comments' = [comments EXCEPT ![comment_id[p]] =
                       EditedComment(@, SummaryBodyPosted(summary[p]), runNo[p])]
    /\ ops' = [ops EXCEPT ![p] = Append(@, "update_comment")]
    /\ pc' = [pc EXCEPT ![p] = "close"]
    /\ UNCHANGED <<issue, checkLog, locals, runNo, lateRun, runs, issue0, fmt>>

\* await close_issue(github, owner, repo, issue_number)
CloseIssue(p) ==
    /\ pc[p] = "close"
    /\ issue' = WithClosed(issue)
    /\ ops' = [ops EXCEPT ![p] = Append(@, "close")]
    /\ pc' = [pc EXCEPT ![p] = "done"]
    /\ UNCHANGED <<comments, checkLog, locals, runNo, lateRun, runs, issue0, fmt>>

Next ==
    \E p \in Procs :
        \/ Invoke(p)
        \/ FetchUsername(p)
        \/ UpdateTitleGet(p)
        \/ UpdateTitleSend(p)
        \/ PostComment(p)
        \/ CheckReturns(p)
        \/ CheckRaises(p)
        \/ PostSummary(p)
        \/ CloseIssue(p)

Spec == Init /\ [][Next]_vars

\* ------------------------------------------------- the formatter on its own
\* Outcomes a Summary may hold
FmtOutcomes ==
    [status : Status, message : {"Add a bio", "Pin a repo"}, docs_url : {"https://docs/1"}]

\* Every outcome list of length at most MaxOutcomes
FmtOutcomeLists == UNION {[1..n -> FmtOutcomes] : n \in 0..MaxOutcomes}

\* The Summaries format_summary_body is applied to: error None, "" or a text
FmtSummaries ==
    [error : {None, <<>>, <<"boom">>, <<"rate", "limit">>}, outcomes : FmtOutcomeLists]

FormatInit ==
    /\ issue = [state |-> "open", labels |-> {"check"}, body |-> None,
                title |-> <<"Please review me">>]
    /\ issue0 = issue
    /\ comments = <<>>
    /\ checkLog = <<>>
    /\ pc = [p \in Procs |-> "idle"]
    /\ run_url = [p \in Procs |-> None]
    /\ username = [p \in Procs |-> None]
    /\ fetched = [p \in Procs |-> NoIssue]
    /\ title_seen = [p \in Procs |-> None]
    /\ comment_id = [p \in Procs |-> 0]
    /\ summary = [p \in Procs |-> NoSummary]
    /\ ops = [p \in Procs |-> <<>>]
    /\ runNo = [p \in Procs |-> 0]
    /\ lateRun = [p \in Procs |-> FALSE]
    /\ runs = 0
    /\ fmtIn \in FmtSummaries
    /\ fmtUrl \in {RunUrl(id) : id \in RunIds}
    /\ fmtOut = <<>>

\* text = format_summary_body(summary, run_url)
Format ==
    /\ fmtOut = <<>>
    /\ fmtOut' = format_summary_body(fmtIn, fmtUrl)
    /\ UNCHANGED <<remote, pc, locals, ops, runNo, lateRun, runs, issue0, fmtIn, fmtUrl>>

FormatNext == Format

FormatSpec == FormatInit /\ [][FormatNext]_vars

\* ------------------------------------------------------ claims: helpers
\* sub occurs in s as a contiguous run of pieces
Contains(s, sub) ==
    \E i \in 0..(Len(s) - Len(sub)) : SubSeq(s, i + 1, i + Len(sub)) = sub

EndsWith(s, tail) ==
    Len(tail) <= Len(s) /\ SubSeq(s, Len(s) - Len(tail) + 1, Len(s)) = tail

IsPrefix(a, b) == Len(a) <= Len(b) /\ SubSeq(b, 1, Len(a)) = a

Count(s, x) == Cardinality({i \in DOMAIN s : s[i] = x})

HasGlyph(s) == \E i \in DOMAIN s : s[i] \in Glyphs

\* The process has fetched the issue in its current invocation
HasFetched(p) == pc[p] \notin {"idle", "fetch"}

\* The target title of the invocation of p
Target(p) == <<"Profile check: ">> \o username[p]

\* The comments invocation r created
CreatedBy(r) == {i \in DOMAIN comments : comments[i].creator = r}

\* The comments the bot created, in any invocation
BotComments == {i \in DOMAIN comments : comments[i].creator # 0}

\* The body holds the trigger phrase at some position
HoldsTrigger(body) == body # None /\ Search(body, 0) # None

\* The issue is open, labelled 'check', has a non-blank body with a trigger
Actionable(iss) ==
    /\ iss.state = "open"
    /\ "check" \in iss.labels
    /\ ~IsBlank(iss.body)
    /\ HoldsTrigger(iss.body)

\* ---------------------------------------------------------------- claims
\* C1: for an open issue labelled 'check' with a non-blank body, a trigger
\* "check @username" at any position of the body, the very start included,
\* makes fetch_username_from_issue return the captured username, and
\* process_issue goes on to act on it.
C1_TriggerAnywhere ==
    \A p \in Procs :
        (HasFetched(p) /\ Actionable(fetched[p])) =>
            /\ username[p] = Search(fetched[p].body, 0)
            /\ pc[p] = "done" => ops[p] # <<>>

\* C2: when the fetched issue is not actionable (closed, or without the
\* 'check' label, or with a missing, empty or whitespace-only body, or with a
\* body that holds no trigger), fetch_username_from_issue returns no username
\* and process_issue ends at once without a write or an external call, the
\* remote issue, its comments and the checker untouched.
C2_Skipped ==
    \A p \in Procs :
        (HasFetched(p) /\ ~Actionable(fetched[p])) =>
            /\ username[p] = None
            /\ pc[p] = "done"
            /\ ops[p] = <<>>

C2_SkipStep ==
    \A p \in Procs :
        (pc[p] = "fetch" /\ pc'[p] # "fetch" /\ ~Actionable(issue)) =>
            /\ pc'[p] = "done"
            /\ remote' = remote

C2_NotActionableNoEffect == []C2_Skipped /\ [][C2_SkipStep]_vars

C2_Witness ==
    \E p \in Procs :
        /\ pc[p] = "done"
        /\ fetched[p].state = "open"
        /\ "check" \in fetched[p].labels
        /\ ~IsBlank(fetched[p].body)
        /\ ~HoldsTrigger(fetched[p].body)
        /\ ops[p] = <<>>

\* C3: a run whose validation succeeded performs its remote operations once
\* each and in the order: title update (only if the title differed), comment
\* creation, check_profile_url on https://github.com/{username}, comment edit
\* with the formatted summary, close; and a run that ends without raising
\* has performed all of them and leaves the issue closed.
AllOps ==
    <<"update_title", "create_comment", "check_profile_url", "update_comment", "close">>

ExpectedOps(p) == IF title_seen[p] # Target(p) THEN AllOps ELSE Tail(AllOps)

C3_OrderedOnce ==
    \A p \in Procs :
        Truthy(username[p]) =>
            /\ pc[p] = "update_title" => ops[p] = <<>>
            /\ pc[p] # "update_title" => IsPrefix(ops[p], ExpectedOps(p))
            /\ pc[p] = "done" => ops[p] = ExpectedOps(p) /\ issue.state = "closed"
            /\ "update_title" \in {ops[p][i] : i \in DOMAIN ops[p]} => issue.title = Target(p)
            /\ \A i \in DOMAIN checkLog :
                   checkLog[i].run = runNo[p] =>
                       checkLog[i].url = <<"https://github.com/">> \o username[p]
            /\ Count([i \in DOMAIN checkLog |-> checkLog[i].run], runNo[p])
                   = Count(ops[p], "check_profile_url")
            /\ pc[p] \in {"close", "done"} =>
                   comments[comment_id[p]].body = format_summary_body(summary[p], None)

C3_Witness ==
    \E p \in Procs : pc[p] = "done" /\ ops[p] = AllOps

\* C4: when check_profile_url returns a Summary with a non-empty error, the
\* comment of the run is edited to hold the error text verbatim with the
\* mention "@honzajavorek" and no glyph block, and the run closes the issue.
C4_ErrorSurfaced ==
    \A p \in Procs :
        (pc[p] \in {"close", "done"} /\ summary[p].error \notin {None, <<>>}) =>
            LET body == comments[comment_id[p]].body
            IN  /\ Contains(body, <<ErrorHeader>> \o summary[p].error \o <<ErrorClose, Mention>>)
                /\ ~HasGlyph(body)
                /\ pc[p] = "close" => ENABLED CloseIssue(p)
                /\ pc[p] = "done" =>
                       issue.state = "closed" /\ ops[p][Len(ops[p])] = "close"

C4_Witness ==
    \E p \in Procs :
        /\ pc[p] = "done"
        /\ summary[p].error = <<"boom">>
        /\ summary[p].outcomes # <<>>

\* C5: when check_profile_url raises in a run that passed validation, the
\* error is posted in the comment with the mention and the issue is closed.
C5_RaiseSurfaced ==
    \A p \in Procs :
        pc[p] = "raised" =>
            /\ issue.state = "closed"
            /\ Contains(comments[comment_id[p]].body, <<Mention>>)

\* C6: update_title sends no update request when the title it fetched is the
\* target already and exactly one otherwise; afterwards the title is the
\* target "Profile check: {username}"; it leaves the issue's state, labels
\* and body, and the comments, as they were.
C6_TitleAfter ==
    \A p \in Procs :
        (Truthy(username[p]) /\ pc[p] \notin {"fetch", "update_title", "send_title"}) =>
            /\ Count(ops[p], "update_title") = (IF title_seen[p] = Target(p) THEN 0 ELSE 1)
            /\ issue.title = Target(p)

C6_TitleStep ==
    \A p \in Procs :
        (pc[p] \in {"update_title", "send_title"} /\ pc'[p] # pc[p]) =>
            /\ issue'.state = issue.state
            /\ issue'.labels = issue.labels
            /\ issue'.body = issue.body
            /\ comments' = comments
            /\ (pc[p] = "update_title" /\ issue.title = Target(p)) =>
                   (issue' = issue /\ pc'[p] = "post_comment")
            /\ pc'[p] = "post_comment" => issue'.title = Target(p)

C6_UpdateTitle == []C6_TitleAfter /\ [][C6_TitleStep]_vars

C6_Witness ==
    \E p, q \in Procs :
        /\ pc[p] = "post_comment" /\ title_seen[p] = Target(p) /\ ops[p] = <<>>
        /\ pc[q] = "post_comment" /\ title_seen[q] # Target(q) /\ ops[q] = <<"update_title">>

\* C7: every run creates at most one comment, exactly one when validation
\* succeeded and none otherwise, and the summary edit of a run goes to the
\* comment that run created, never to another comment of the issue.
C7_OwnComment ==
    /\ \A r \in 1..runs : Cardinality(CreatedBy(r)) <= 1
    /\ \A p \in Procs :
           (pc[p] \in {"done", "raised"}) =>
               Cardinality(CreatedBy(runNo[p])) = (IF Truthy(username[p]) THEN 1 ELSE 0)
    /\ \A p \in Procs :
           (pc[p] \in {"check", "post_summary", "close"}) =>
               CreatedBy(runNo[p]) = {comment_id[p]}
    /\ \A i \in DOMAIN comments : comments[i].editor \in {0, comments[i].creator}

C7_Witness ==
    \E i, j \in DOMAIN comments :
        /\ i # j
        /\ comments[i].creator # 0 /\ comments[i].editor = comments[i].creator
        /\ comments[j].creator # 0 /\ comments[j].editor = comments[j].creator

\* C8: for a Summary without an error, format_summary_body emits one glyph
\* block per outcome, in the order of summary.outcomes, each with the glyph of
\* the outcome's status, its message and its docs link; and for every
\* Summary the text ends with the collapsible JSON block of the summary.
GlyphAt == {i \in DOMAIN fmtOut : fmtOut[i] \in Glyphs}

GlyphOf ==
    [s \in Status |->
        CASE s = "error" -> "RED_CIRCLE" [] s = "warning" -> "ORANGE_CIRCLE"
          [] s = "info" -> "BLUE_CIRCLE" [] s = "done" -> "GREEN_CIRCLE"]

C8_GlyphBlocks ==
    fmtOut # <<>> =>
        /\ fmtIn.error \in {None, <<>>} =>
               /\ Cardinality(GlyphAt) = Len(fmtIn.outcomes)
               /\ \A i \in GlyphAt :
                      LET o == fmtIn.outcomes[Cardinality({j \in GlyphAt : j <= i})]
                      IN  /\ fmtOut[i] = GlyphOf[o.status]
                          /\ fmtOut[i + 2] = o.message
                          /\ fmtOut[i + 4] = o.docs_url
        /\ EndsWith(fmtOut, <<DetailsOpen>> \o Json(fmtIn) \o <<DetailsClose>>)

C8_Witness ==
    /\ fmtOut # <<>>
    /\ fmtIn.error = None
    /\ Len(fmtIn.outcomes) = 2
    /\ fmtIn.outcomes[1] # fmtIn.outcomes[2]

\* C9 (as stated): two invocations on the same open, labelled issue with a
\* trigger, in any interleaving, leave the remote state of a sequential
\* execution: the title set, the issue closed, one 'working' comment created
\* and check_profile_url invoked once.
TwoRunsOver == runs = 2 /\ \A p \in Procs : pc[p] \in {"done", "raised"}

Validated == {p \in Procs : Truthy(username[p])}

C10_LateRunIdle ==
    \A p \in Procs :
        lateRun[p] =>
            /\ pc[p] \in {"fetch", "done"}
            /\ username[p] = None
            /\ ops[p] = <<>>

C10_LateRunStep ==
    \A p \in Procs :
        (lateRun[p] /\ pc[p] = "fetch" /\ pc'[p] # "fetch") =>
            /\ remote' = remote
            /\ pc'[p] = "done"

C10_Idempotent == []C10_LateRunIdle /\ [][C10_LateRunStep]_vars

C10_Witness ==
    \E p, q \in Procs :
        /\ p # q
        /\ pc[q] = "done" /\ ops[q] # <<>> /\ ops[q][Len(ops[q])] = "close"
        /\ lateRun[p] /\ pc[p] = "done" /\ runNo[p] > runNo[q]

====
